---------------------------- MODULE Spec2Model ----------------------------
(* Model of bulk_generate_reports.py: the backfill driver (main) with its   *)
(* persisted report index, the Decimal line formulas of                     *)
(* build_daily_summary, and the business-day window filters of the two      *)
(* report queries.                                                          *)
EXTENDS Integers, Sequences, FiniteSets, TLC

VARIABLES
    pc,          \* position of main: "idle", "loop", "done", "aborted"
    d,           \* main's loop variable d (a date)
    dates_set,   \* main's dates_set (set of date strings)
    generated,   \* main's generated counter
    failed,      \* main's failed list
    index_file,  \* report_index.json on disk
    runs,        \* number of runs of main started so far
    crash,       \* the call whose exception escaped main, or "none"
    status,      \* history: per day of the current run, Pending/Succeeded/Failed
    written,     \* history: report files whose write_text completed in this run
    built,       \* history: the (date string, build function) calls made in this run
    loaded,      \* history: the dates loaded from the index at the start of this run
    saves,       \* history: number of save_index calls in this run
    allOk,       \* history: no day has failed and no run was aborted so far
    firstDates,  \* history: dates_set at the end of the first run, if all its days succeeded
    persisted,   \* history: every date string ever written into an index document
    row,         \* arithmetic: the ledger row under evaluation
    calc,        \* arithmetic: the figures computed for row
    win          \* window: the timestamp under evaluation and its selections

driverVars == <<pc, d, dates_set, generated, failed, index_file, runs, crash,
                status, written, built, loaded, saves, allOk, firstDates, persisted>>
vars == <<driverVars, row, calc, win>>

-----------------------------------------------------------------------------
(* Bounds *)

\* Number of days in [START_DATE, END_DATE].
RangeDays == 3
\* Number of runs of main.
MaxRuns == 3
\* Significant digits of the Decimal context in the model (Python's default
\* context has 28; the inputs are scaled to the precision).
Prec == 3
\* Number of consecutive business days whose windows are examined.
WinDays == 2

-----------------------------------------------------------------------------
(* Dates, date strings *)

\* Python None, distinct from every string (strings are tuples of character codes).
None == << -1 >>

\* `if latest:` -- None and the empty string are falsy.
Truthy(v) == v /= None /\ v /= <<>>

IsLeap(y) == (y % 4 = 0 /\ y % 100 /= 0) \/ y % 400 = 0

DaysInMonth(y, m) ==
    IF m = 2 THEN (IF IsLeap(y) THEN 29 ELSE 28)
    ELSE IF m \in {4, 6, 9, 11} THEN 30 ELSE 31

\* d += timedelta(days=1)
NextDay(dt) ==
    IF dt.day < DaysInMonth(dt.year, dt.month)
    THEN [dt EXCEPT !.day = dt.day + 1]
    ELSE IF dt.month < 12
         THEN [year |-> dt.year, month |-> dt.month + 1, day |-> 1]
         ELSE [year |-> dt.year + 1, month |-> 1, day |-> 1]

\* date <= date
DateLE(a, b) ==
    \/ a.year < b.year
    \/ a.year = b.year /\ a.month < b.month
    \/ a.year = b.year /\ a.month = b.month /\ a.day <= b.day

RECURSIVE AddDays(_, _)
AddDays(dt, n) == IF n = 0 THEN dt ELSE AddDays(NextDay(dt), n - 1)

\* In the source the range runs from December 1 of the previous year to
\* today, so it always crosses a month and a year boundary. The model keeps
\* the range RangeDays long and starts it at the end of that December, so
\* that the short range crosses both boundaries too.
START_DATE == [year |-> 2025, month |-> 12, day |-> 30]
END_DATE == AddDays(START_DATE, RangeDays - 1)

RangeDates == {AddDays(START_DATE, n) : n \in 0..(RangeDays - 1)}

Digit(n) == 48 + n
Dash == 45

\* d.strftime("%Y-%m-%d"): ten character codes, zero padded
strftime(dt) ==
    << Digit(dt.year \div 1000), Digit((dt.year \div 100) % 10),
       Digit((dt.year \div 10) % 10), Digit(dt.year % 10), Dash,
       Digit(dt.month \div 10), Digit(dt.month % 10), Dash,
       Digit(dt.day \div 10), Digit(dt.day % 10) >>

RangeStrs == {strftime(dt) : dt \in RangeDates}

\* Python str < str: lexicographic by character code
StrLess(a, b) ==
    \/ \E i \in 1..Len(a) :
          /\ i <= Len(b)
          /\ a[i] < b[i]
          /\ \A j \in 1..(i - 1) : a[j] = b[j]
    \/ /\ Len(a) < Len(b)
       /\ \A j \in 1..Len(a) : a[j] = b[j]

RECURSIVE SortedAsc(_)
SortedAsc(S) ==
    IF S = {} THEN <<>>
    ELSE LET m == CHOOSE x \in S : \A y \in S : y = x \/ StrLess(x, y)
         IN <<m>> \o SortedAsc(S \ {m})

RECURSIVE SortedDescBody(_)
SortedDescBody(S) ==
    IF S = {} THEN <<>>
    ELSE LET m == CHOOSE x \in S : \A y \in S : y = x \/ StrLess(y, x)
         IN <<m>> \o SortedDescBody(S \ {m})

\* a sort that loses its first element
SortedDescDropFirst(S) == IF S = {} THEN <<>> ELSE Tail(SortedDescBody(S))

\* sorted(dates_set, reverse=True)
SortedDesc(S) == SortedDescBody(S)

SeqRange(s) == {s[i] : i \in 1..Len(s)}

-----------------------------------------------------------------------------
(* report_index.json *)

\* datetime.now().strftime(...): no code reads the value back
NOW == "now"

NoPayload == [latest |-> None, dates |-> <<>>, updated_at |-> NOW]

\* INDEX_JSON does not exist
AbsentFile == [kind |-> "absent", payload |-> NoPayload]
\* INDEX_JSON exists and json.loads raises on its text
GarbageFile == [kind |-> "garbage", payload |-> NoPayload]
\* INDEX_JSON holds the JSON text of payload
JsonFile(p) == [kind |-> "json", payload |-> p]

DefaultIndex == [latest |-> None, dates |-> <<>>]

\* a load that never reads the file
load_index_default(f) == DefaultIndex

\* load_index(): the parsed document, or the default when the file is absent
\* or unparseable
load_index(f) ==
    IF f.kind = "json"
    THEN [latest |-> f.payload.latest, dates |-> f.payload.dates,
          updated_at |-> f.payload.updated_at]
    ELSE DefaultIndex

\* a start that ignores the stored dates
LoadedDatesNone(f) == {}

\* set(idx.get("dates") or [])
LoadedDates(f) == SeqRange(load_index(f).dates)

\* save_index: the payload dictionary
Payload(latest, dates) ==
    [latest |-> latest, dates |-> dates, updated_at |-> NOW]


-----------------------------------------------------------------------------
(* main: the backfill driver *)

DAILY_FILE == "summary_daily.html"
CATEGORY_FILE == "category_report.html"

\* The calls inside main's try block, in order; each may raise.
TrySteps == <<"build_daily_summary", "build_category_report",
              "write_daily", "write_category">>

StepIndex(s) == CHOOSE i \in 1..Len(TrySteps) : TrySteps[i] = s

\* What one iteration can do: run to the end of the try block, raise in
\* ensure_dir(out_dir) before it, or raise in one of its calls.
Outcomes == {"ok", "ensure_dir"} \cup SeqRange(TrySteps)

\* The calls of the try block that ran (were invoked) under outcome o.
Invoked(o) ==
    IF o = "ok" THEN SeqRange(TrySteps)
    ELSE IF o = "ensure_dir" THEN {}
    ELSE {TrySteps[i] : i \in 1..StepIndex(o)}

\* The calls of the try block that returned under outcome o.
Completed(o) ==
    IF o = "ok" THEN SeqRange(TrySteps)
    ELSE IF o = "ensure_dir" THEN {}
    ELSE {TrySteps[i] : i \in 1..(StepIndex(o) - 1)}

\* The report files of day ds whose write_text returned under outcome o.
FilesWritten(ds, o) ==
    (IF "write_daily" \in Completed(o) THEN {<<ds, DAILY_FILE>>} ELSE {})
    \cup (IF "write_category" \in Completed(o) THEN {<<ds, CATEGORY_FILE>>} ELSE {})

Builds(ds, o) ==
    {<<ds, f>> : f \in Invoked(o) \cap {"build_daily_summary", "build_category_report"}}

InitDriver ==
    /\ pc = "idle"
    /\ d = START_DATE
    /\ dates_set = {}
    /\ generated = 0
    /\ failed = <<>>
    /\ index_file = AbsentFile
    /\ runs = 0
    /\ crash = "none"
    /\ status = [ds \in RangeStrs |-> "Pending"]
    /\ written = {}
    /\ built = {}
    /\ loaded = {}
    /\ saves = 0
    /\ allOk = TRUE
    /\ firstDates = {}
    /\ persisted = {}

\* main, lines 314-326: load the index, connect (db_conn may raise, which
\* ends the run), enter the loop.
Start ==
    /\ pc \in {"idle", "done", "aborted"}
    /\ runs < MaxRuns
    /\ runs' = runs + 1
    /\ dates_set' = LoadedDates(index_file)
    /\ loaded' = LoadedDates(index_file)
    /\ generated' = 0
    /\ failed' = <<>>
    /\ status' = [ds \in RangeStrs |-> "Pending"]
    /\ written' = {}
    /\ built' = {}
    /\ saves' = 0
    /\ \E o \in {"ok", "db_conn"} :
         IF o = "ok"
         THEN /\ pc' = "loop"
              /\ d' = START_DATE
              /\ crash' = "none"
              /\ allOk' = allOk
         ELSE /\ pc' = "aborted"
              /\ d' = d
              /\ crash' = o
              /\ allOk' = FALSE
    /\ UNCHANGED <<index_file, firstDates, persisted>>

\* One iteration of the while loop under outcome o, lines 328-350.
DayEffect(o) ==
    LET ds == strftime(d) IN
    /\ built' = built \cup Builds(ds, o)
    /\ written' = written \cup FilesWritten(ds, o)
    /\ IF o = "ok"
       THEN /\ dates_set' = dates_set \cup {ds}
            /\ generated' = generated + 1
            /\ status' = [status EXCEPT ![ds] = "Succeeded"]
            /\ d' = NextDay(d)
            /\ UNCHANGED <<failed, pc, crash, allOk>>
       ELSE IF o = "ensure_dir"
       THEN /\ pc' = "aborted"
            /\ crash' = "ensure_dir"
            /\ allOk' = FALSE
            /\ UNCHANGED <<dates_set, generated, status, d, failed>>
       ELSE /\ failed' = Append(failed, [ds |-> ds, err |-> o])
            /\ status' = [status EXCEPT ![ds] = "Failed"]
            /\ d' = NextDay(d)
            /\ allOk' = FALSE
            /\ UNCHANGED <<dates_set, generated, pc, crash>>
    /\ UNCHANGED <<index_file, runs, loaded, saves, firstDates, persisted>>

\* an except clause that lets the failures of the write_text calls through
ProcessDayWritesFatal ==
    /\ pc = "loop"
    /\ DateLE(d, END_DATE)
    /\ \E o \in Outcomes :
         IF o \in {"write_daily", "write_category"}
         THEN /\ pc' = "aborted"
              /\ crash' = o
              /\ allOk' = FALSE
              /\ built' = built \cup Builds(strftime(d), o)
              /\ written' = written \cup FilesWritten(strftime(d), o)
              /\ UNCHANGED <<dates_set, generated, status, d, failed, index_file,
                             runs, loaded, saves, firstDates, persisted>>
         ELSE DayEffect(o)

\* a loop that skips the days the loaded index already holds
ProcessDaySkipLoaded ==
    /\ pc = "loop"
    /\ DateLE(d, END_DATE)
    /\ IF strftime(d) \in dates_set
       THEN /\ d' = NextDay(d)
            /\ status' = [status EXCEPT ![strftime(d)] = "Succeeded"]
            /\ UNCHANGED <<pc, dates_set, generated, failed, index_file, runs, crash,
                           written, built, loaded, saves, allOk, firstDates, persisted>>
       ELSE \E o \in Outcomes : DayEffect(o)

\* main, lines 327-350: while d <= END_DATE, one day.
ProcessDay ==
    /\ pc = "loop"
    /\ DateLE(d, END_DATE)
    /\ \E o \in Outcomes : DayEffect(o)

\* The outcomes of write_text(INDEX_JSON, ...): written, failed before the
\* file was opened, failed after it was truncated.
WriteOutcomes == {"ok", "open_failed", "write_failed"}

\* save_index(latest, dates_sorted) under write outcome w, and main's exit.
save_index(latest, dates_sorted, w) ==
    /\ saves' = saves + 1
    /\ IF w = "ok"
       THEN /\ index_file' = JsonFile(Payload(latest, dates_sorted))
            /\ persisted' = persisted \cup SeqRange(dates_sorted)
            /\ pc' = "done"
            /\ crash' = crash
       ELSE /\ index_file' = (IF w = "write_failed" THEN GarbageFile ELSE index_file)
            /\ persisted' = persisted
            /\ pc' = "aborted"
            /\ crash' = "save_index"

\* main's exit when save_index is not called.
NoSaveEffect ==
    /\ pc' = "done"
    /\ UNCHANGED <<saves, index_file, persisted, crash>>

\* dates_sorted[0] if dates_sorted else None
LatestOf(dates_sorted) == IF dates_sorted /= <<>> THEN dates_sorted[1] ELSE None

\* a finalisation without the `if latest:` guard
FinalizeUnguarded ==
    /\ pc = "loop"
    /\ ~DateLE(d, END_DATE)
    /\ firstDates' = IF runs = 1 /\ allOk THEN dates_set ELSE firstDates
    /\ \E w \in WriteOutcomes :
         save_index(LatestOf(SortedDesc(dates_set)), SortedDesc(dates_set), w)
    /\ UNCHANGED <<d, dates_set, generated, failed, runs, status, written, built,
                   loaded, allOk>>

\* main, lines 352-389: sort, save the index when latest is truthy, report.
\* The git push that follows catches its own exceptions and changes nothing
\* here.
Finalize ==
    /\ pc = "loop"
    /\ ~DateLE(d, END_DATE)
    /\ firstDates' = IF runs = 1 /\ allOk THEN dates_set ELSE firstDates
    /\ LET dates_sorted == SortedDesc(dates_set)
           latest == LatestOf(dates_sorted)
       IN IF Truthy(latest)
          THEN \E w \in WriteOutcomes : save_index(latest, dates_sorted, w)
          ELSE NoSaveEffect
    /\ UNCHANGED <<d, dates_set, generated, failed, runs, status, written, built,
                   loaded, allOk>>

-----------------------------------------------------------------------------
(* Decimal arithmetic of build_daily_summary *)

\* A Decimal: NaN or a finite integer number of units; ix records that an
\* operation that produced it was inexact (the context's Inexact signal).
Dec(n) == [nan |-> FALSE, v |-> n, ix |-> FALSE]
DecNaN == [nan |-> TRUE, v |-> 0, ix |-> FALSE]

RECURSIVE Pow10(_)
Pow10(n) == IF n = 0 THEN 1 ELSE 10 * Pow10(n - 1)

Abs(x) == IF x < 0 THEN -x ELSE x

RECURSIVE NumDigits(_)
NumDigits(x) == IF Abs(x) < 10 THEN 1 ELSE 1 + NumDigits(Abs(x) \div 10)

\* The context's rounding of an exact result to Prec significant digits,
\* ROUND_HALF_EVEN.
Round(x) ==
    IF NumDigits(x) <= Prec THEN x
    ELSE LET q == Pow10(NumDigits(x) - Prec)
             t == Abs(x) \div q
             r == Abs(x) % q
             up == (2 * r > q) \/ (2 * r = q /\ t % 2 = 1)
             m == (IF up THEN t + 1 ELSE t) * q
         IN IF x < 0 THEN -m ELSE m

DecOp(a, b, exact) ==
    IF a.nan \/ b.nan
    THEN [nan |-> TRUE, v |-> 0, ix |-> a.ix \/ b.ix]
    ELSE [nan |-> FALSE, v |-> Round(exact), ix |-> a.ix \/ b.ix \/ Round(exact) /= exact]

\* Decimal + Decimal, Decimal - Decimal, Decimal * Decimal
DecAdd(a, b) == DecOp(a, b, a.v + b.v)
DecSub(a, b) == DecOp(a, b, a.v - b.v)
DecMul(a, b) == DecOp(a, b, a.v * b.v)

\* Decimal == Decimal: numeric, and false when either side is NaN
DecEq(a, b) == ~a.nan /\ ~b.nan /\ a.v = b.v

\* The values a ledger field can hold, as pyodbc hands them over.
RawNone == [kind |-> "None", val |-> 0]
RawDecimal(n) == [kind |-> "Decimal", val |-> n]
RawInt(n) == [kind |-> "int", val |-> n]
RawBool(n) == [kind |-> "bool", val |-> n]
RawNumText(n) == [kind |-> "numeric_text", val |-> n]
RawGarbage == [kind |-> "garbage_text", val |-> 0]
RawNaN == [kind |-> "nan", val |-> 0]

\* Decimal(str(v)) raises InvalidOperation: str(True) is "True", and text that
\* is no number.
ParseRaises(v) == v.kind \in {"bool", "garbage_text"}

\* d0(v)
d0(v) ==
    IF v.kind = "None" THEN Dec(0)
    ELSE IF v.kind = "Decimal" THEN Dec(v.val)
    ELSE IF ParseRaises(v) THEN Dec(0)
    ELSE IF v.kind = "nan" THEN DecNaN
    ELSE Dec(v.val)

\* tax_total(r)
tax_total(r) ==
    DecAdd(DecAdd(DecAdd(d0(r.Tax1Amount), d0(r.Tax2Amount)), d0(r.Tax3Amount)),
           d0(r.Tax4Amount))

\* one_minus_taxinclude(r)
one_minus_taxinclude(r) == DecSub(Dec(1), d0(r.TaxInclude))

\* d0(r.Amount) + tax_total(r) * one_minus_taxinclude(r)
gross_line(r) == DecAdd(d0(r.Amount), DecMul(tax_total(r), one_minus_taxinclude(r)))

\* a net line that uses the exclusion factor
net_line_exclusion(r) ==
    DecSub(d0(r.Amount), DecMul(tax_total(r), one_minus_taxinclude(r)))

\* net_line = d0(r.Amount) - tax_total(r) * d0(r.TaxInclude)
net_line(r) == DecSub(d0(r.Amount), DecMul(tax_total(r), d0(r.TaxInclude)))

\* An amount at the edge of the context precision.
EdgeAmount == Pow10(Prec) - 5

AmountRaws ==
    {RawNone, RawGarbage, RawNaN, RawInt(50), RawNumText(7)}
    \cup {RawDecimal(n) : n \in {0, 100, EdgeAmount, -EdgeAmount}}
TaxRaws == {RawNone, RawGarbage} \cup {RawDecimal(n) : n \in {0, 5, 7}}
SmallTaxRaws == {RawNone, RawDecimal(1)}
FlagRaws ==
    {RawNone, RawGarbage, RawNaN, RawBool(1), RawInt(1)}
    \cup {RawDecimal(n) : n \in {0, 1, 2}}

Rows ==
    [Amount : AmountRaws, Tax1Amount : TaxRaws, Tax2Amount : TaxRaws,
     Tax3Amount : SmallTaxRaws, Tax4Amount : SmallTaxRaws, TaxInclude : FlagRaws]

NoRow ==
    [Amount |-> RawNone, Tax1Amount |-> RawNone, Tax2Amount |-> RawNone,
     Tax3Amount |-> RawNone, Tax4Amount |-> RawNone, TaxInclude |-> RawNone]

NoCalc == [done |-> FALSE, gross |-> Dec(0), net |-> Dec(0), tax |-> Dec(0),
           diff |-> Dec(0)]

InitIdleArith == row = NoRow /\ calc = NoCalc

InitArith == row \in Rows /\ calc = NoCalc

\* The line figures of build_daily_summary for one sales row, lines 159-182.
EvaluateRow ==
    /\ ~calc.done
    /\ calc' = [done |-> TRUE,
                gross |-> gross_line(row),
                net |-> net_line(row),
                tax |-> tax_total(row),
                diff |-> DecSub(gross_line(row), net_line(row))]
    /\ UNCHANGED row

-----------------------------------------------------------------------------
(* Business-day windows and the time filters of the two queries *)

MINUTES_PER_DAY == 1440

Colon == 58

RECURSIVE ToInt(_)
\* int(text) of a digit string
ToInt(cs) ==
    IF cs = <<>> THEN 0
    ELSE 10 * ToInt(SubSeq(cs, 1, Len(cs) - 1)) + (cs[Len(cs)] - 48)

\* hhmm_to_time(hhmm): minutes after midnight of time(hh, mm)
hhmm_to_time(hhmm) ==
    LET c == CHOOSE i \in 1..Len(hhmm) : hhmm[i] = Colon
        hh == ToInt(SubSeq(hhmm, 1, c - 1))
        mm == ToInt(SubSeq(hhmm, c + 1, Len(hhmm)))
    IN hh * 60 + mm

\* BUSINESS_DAY_START, default "06:30"
BUSINESS_DAY_START == <<48, 54, 58, 51, 48>>

\* a window that ends one minute before the next one starts
business_window_short(day) ==
    LET start == day * MINUTES_PER_DAY + hhmm_to_time(BUSINESS_DAY_START)
    IN [start |-> start, end |-> start + MINUTES_PER_DAY - 1]

\* business_window(day): datetimes in minutes since midnight of day 0
business_window(day) ==
    LET start == day * MINUTES_PER_DAY + hhmm_to_time(BUSINESS_DAY_START)
    IN [start |-> start, end |-> start + MINUTES_PER_DAY]

\* SQL NULL of the left outer join
NULL == -1

\* WHERE clause of build_daily_summary's query
DailySelects(r, start_dt, end_dt) ==
    /\ r.DateR >= start_dt /\ r.DateR < end_dt
    /\ r.Status = 0
    /\ (r.TransType \in {101, 102, 103, 104, 311, 501, 780}
        \/ r.GroupTransType \in {1, 2})

\* WHERE clause of build_category_report's queries; a comparison with NULL
\* is not true
CategorySelects(r, start_dt, end_dt) ==
    /\ r.DateR >= start_dt /\ r.DateR <= end_dt
    /\ r.Status = 0
    /\ r.SalesFlag /= NULL /\ (1 - r.SalesFlag) = 1
    /\ r.TransType \in {101, 102, 112, 111}

\* The days examined, with one more day on either side.
ExaminedDays == 0..(WinDays - 1)
AllDays == -1..WinDays

\* Timestamps around every window boundary and in the middle of every window.
TimeStamps ==
    {business_window(k).start + o : k \in 0..WinDays, o \in {-1, 0, 1}}
    \cup {business_window(k).start + 720 : k \in ExaminedDays}

JournalRows ==
    [DateR : TimeStamps, Status : {0, 1}, TransType : {101, 103, 111, 999},
     GroupTransType : {0, 1}, SalesFlag : {0, 1, NULL}]

NoJournalRow ==
    [DateR |-> 0, Status |-> 1, TransType |-> 999, GroupTransType |-> 0,
     SalesFlag |-> NULL]

NoWin == [done |-> FALSE, r |-> NoJournalRow, daily |-> {}, category |-> {}]

InitIdleWindow == win = NoWin

InitWindow == \E r \in JournalRows : win = [NoWin EXCEPT !.r = r]

\* The two queries run for every day with the window main computes for it,
\* lines 332-336.
RunQueries ==
    /\ ~win.done
    /\ win' = [win EXCEPT
                 !.done = TRUE,
                 !.daily = {k \in AllDays :
                              DailySelects(win.r, business_window(k).start,
                                           business_window(k).end)},
                 !.category = {k \in AllDays :
                                 CategorySelects(win.r, business_window(k).start,
                                                 business_window(k).end)}]


Init == InitDriver /\ InitIdleArith /\ InitIdleWindow

Next ==
    \/ Start /\ UNCHANGED <<row, calc, win>>
    \/ ProcessDay /\ UNCHANGED <<row, calc, win>>
    \/ Finalize /\ UNCHANGED <<row, calc, win>>

Spec == Init /\ [][Next]_vars

NextArith == EvaluateRow /\ UNCHANGED <<driverVars, win>>

InitRows == InitDriver /\ InitArith /\ InitIdleWindow

\* The line formulas applied to every row of Rows.
SpecArith == InitRows /\ [][NextArith]_vars

NextWindow == RunQueries /\ UNCHANGED <<driverVars, row, calc>>

InitQueries == InitDriver /\ InitIdleArith /\ InitWindow

\* The two queries applied to every row of JournalRows.
SpecWindow == InitQueries /\ [][NextWindow]_vars

-----------------------------------------------------------------------------
(* Properties of the driver *)

\* The while loop has run to its end in the current run.
LoopEnded ==
    \/ pc = "loop" /\ ~DateLE(d, END_DATE)
    \/ pc = "done"
    \/ pc = "aborted" /\ crash = "save_index"

FailuresOf(ds) == {i \in 1..Len(failed) : failed[i].ds = ds}

Count(seq, x) == Cardinality({i \in 1..Len(seq) : seq[i] = x})

\* The greatest string of a non-empty set, by the definition of a maximum.
MaxStr(S) == CHOOSE x \in S : \A y \in S : ~StrLess(x, y)

\* The date a "YYYY-MM-DD" string denotes.
ParseDate(s) ==
    [year |-> (s[1] - 48) * 1000 + (s[2] - 48) * 100 + (s[3] - 48) * 10 + (s[4] - 48),
     month |-> (s[6] - 48) * 10 + (s[7] - 48),
     day |-> (s[9] - 48) * 10 + (s[10] - 48)]

IndexDates == SeqRange(index_file.payload.dates)

\* C1: no exception of build_daily_summary, build_category_report or a
\* write_text call escapes main; the days are visited in ascending order (the
\* days before d are settled, the others pending); and once the loop has
\* ended every day of the range is either Succeeded, counted in generated and
\* absent from failed, or Failed with exactly one entry in failed.
C1_EveryDaySettled ==
    /\ crash \notin SeqRange(TrySteps)
    /\ pc = "loop" =>
         \A dt \in RangeDates : DateLE(d, dt) <=> status[strftime(dt)] = "Pending"
    /\ LoopEnded =>
         /\ \A ds \in RangeStrs :
              \/ status[ds] = "Succeeded" /\ FailuresOf(ds) = {}
              \/ status[ds] = "Failed" /\ Cardinality(FailuresOf(ds)) = 1
         /\ generated = Cardinality({ds \in RangeStrs : status[ds] = "Succeeded"})
         /\ Len(failed) = Cardinality({ds \in RangeStrs : status[ds] = "Failed"})

\* A finished run in which a write_text failure of one day was logged and a
\* later day succeeded.
C1_Witness ==
    /\ pc = "done"
    /\ \E i \in 1..Len(failed) :
         /\ failed[i].err = "write_category"
         /\ \E ds \in RangeStrs : StrLess(failed[i].ds, ds) /\ status[ds] = "Succeeded"

\* C2: a day that ended Failed has neither of its two report files written by
\* this run, and this run has not added its date string to the completed set.
C2_AllOrNothing ==
    \A ds \in RangeStrs :
        status[ds] = "Failed" =>
            /\ <<ds, DAILY_FILE>> \notin written
            /\ <<ds, CATEGORY_FILE>> \notin written
            /\ ds \in dates_set => ds \in loaded

C4_LoadedNotRebuilt ==
    \A ds \in loaded :
        /\ <<ds, "build_daily_summary">> \notin built
        /\ <<ds, "build_category_report">> \notin built

\* C4 amended: once the loop has ended, build_daily_summary has been invoked
\* for every day of the range, whether or not its date string was loaded.
C4_EveryDayRebuilt ==
    LoopEnded => \A ds \in RangeStrs : <<ds, "build_daily_summary">> \in built

\* A finished run that invoked both build functions for a day it had loaded.
C4_Witness ==
    /\ pc = "done"
    /\ \E ds \in loaded :
         /\ <<ds, "build_daily_summary">> \in built
         /\ <<ds, "build_category_report">> \in built

\* C5: when every day of every run so far succeeded, the completed set after
\* the second and any later run equals the set after the first run, and the
\* persisted dates list holds each completed date exactly once and nothing
\* else.
C5_IdempotentUnion ==
    (allOk /\ pc = "done" /\ runs >= 2) =>
        /\ dates_set = firstDates
        /\ \A ds \in dates_set : Count(index_file.payload.dates, ds) = 1
        /\ IndexDates = dates_set

\* A second or later all-successful run has finished over a loaded index.
C5_Witness == allOk /\ pc = "done" /\ runs >= 2 /\ loaded = RangeStrs

C8_WellFormed ==
    /\ index_file.kind = "json" =>
         LET p == index_file.payload IN
         /\ p.dates /= <<>>
         /\ \A i \in 1..(Len(p.dates) - 1) : StrLess(p.dates[i + 1], p.dates[i])
         /\ p.latest = p.dates[1]
         /\ \A x \in SeqRange(p.dates) : DateLE(ParseDate(x), ParseDate(p.latest))
    /\ (pc = "done" /\ saves = 1) =>
         /\ \A dt \in RangeDates :
              status[strftime(dt)] = "Succeeded"
                 => DateLE(dt, ParseDate(index_file.payload.latest))
         /\ \A x \in loaded : DateLE(ParseDate(x), ParseDate(index_file.payload.latest))

\* A saved index that holds dates of both years, one of them loaded.
C8_Witness ==
    /\ pc = "done" /\ saves = 1 /\ loaded /= {}
    /\ \E x, y \in IndexDates : ParseDate(x).year < ParseDate(y).year

-----------------------------------------------------------------------------
(* Properties of the line formulas *)

-----------------------------------------------------------------------------
(* Properties of the windows *)

IsBoundary(t) == \E k \in AllDays : t = business_window(k).start

\* The predicates of each query other than the time filter.
DailyEligible(r) ==
    r.Status = 0 /\ (r.TransType \in {101, 102, 103, 104, 311, 501, 780}
                     \/ r.GroupTransType \in {1, 2})
CategoryEligible(r) ==
    r.Status = 0 /\ r.SalesFlag = 0 /\ r.TransType \in {101, 102, 112, 111}

\* C10: the end of day k's window is the start of day k+1's; a row on the
\* boundary between days k-1 and k that a query's other predicates admit is
\* selected by the category query for both days and by the daily query for
\* day k only; a row off the boundaries is selected by each query that
\* admits it for exactly one day.
C10_BoundaryRows ==
    /\ \A k \in AllDays : business_window(k).end = business_window(k + 1).start
    /\ win.done =>
         /\ \A k \in AllDays :
              win.r.DateR = business_window(k).start =>
                 /\ CategoryEligible(win.r) => win.category = {k - 1, k}
                 /\ DailyEligible(win.r) => win.daily = {k}
         /\ ~IsBoundary(win.r.DateR) =>
                 /\ CategoryEligible(win.r) => Cardinality(win.category) = 1
                 /\ DailyEligible(win.r) => Cardinality(win.daily) = 1
                 /\ (CategoryEligible(win.r) /\ DailyEligible(win.r))
                      => win.category = win.daily

\* A sales row exactly on the boundary between two examined days, in the
\* category report of both and in the daily summary of the later one.
C10_Witness ==
    /\ win.done
    /\ \E k \in ExaminedDays :
         /\ k - 1 \in ExaminedDays
         /\ win.r.DateR = business_window(k).start
         /\ win.category = {k - 1, k}
         /\ win.daily = {k}

=============================================================================
